---- MODULE Spec2Model ----
(***************************************************************************)
(* Model of the LXC seccomp proxy message buffer (src/src/lxcseccomp.rs).  *)
(*                                                                         *)
(* The wire is modelled at field granularity: every fixed-width field of   *)
(* the envelope, of the notification and of the response is one unit, and  *)
(* a cookie byte is one unit.  Byte counts are counted in these units, so  *)
(* a short read fills a prefix of the fields and leaves the rest as they   *)
(* were.  The platform size type is scaled down to a few bits so that the  *)
(* conversion of the 64-bit cookie length and the addition in set_len can  *)
(* overflow within the explored values.                                    *)
(***************************************************************************)
EXTENDS Integers, Sequences, FiniteSets, TLC

\* ---------------------------------------------------------------- bounds
\* capacity of the cookie buffer (the max_cookie argument of new)
MaxCookie == 2
\* largest value of the size type on a platform narrower than 64 bits
UsizeNarrowMax == 31
\* largest value of a 64-bit field
U64Max == 63
\* connections the process accepts
MaxTasks == 2

\* ------------------------------------------------------------- constants
\* mem::size_of::<SeccompNotifyProxyMsg>(): seven fields
SizeOfProxyMsg == 7
\* mem::size_of::<SeccompNotif>(): id and the rest (pid, flags, data)
SizeOfNotif == 2
\* mem::size_of::<SeccompNotifResp>(): id, val, error, flags
SizeOfResp == 4
\* size of the kernel's seccomp_data
SizeOfData == 1
ENOSYS == 38
\* Option<Fd>::None
None == 0

VARIABLES
    buf,              \* the ProxyMessageBuffer
    pc,               \* where the owning task stands: idle, in recv, in respond, dropped
    open_fds,         \* descriptors open in the process (received and not yet closed)
    last,             \* the last call: operation, inputs and return value
    sent,             \* what the last respond handed to the socket
    usize_max,        \* usize::MAX of the platform the build runs on
    overflow_checks,  \* whether the build panics on arithmetic overflow
    proc              \* the process: the SECCOMP_SIZES cell and the connection tasks

vars == <<buf, pc, open_fds, last, sent, usize_max, overflow_checks, proc>>

\* ------------------------------------------------------------ structures
\* The value the kernel reports for the three structure sizes.
SECCOMP_SIZES == [notif |-> SizeOfNotif, notif_resp |-> SizeOfResp, data |-> SizeOfData]

ZeroedProxyMsg ==
    [reserved0 |-> 0, monitor_pid |-> 0, init_pid |-> 0,
     sizes |-> [notif |-> 0, notif_resp |-> 0, data |-> 0], cookie_len |-> 0]
ZeroedNotif == [id |-> 0, rest |-> 0]
ZeroedResp == [id |-> 0, val |-> 0, error |-> 0, flags |-> 0]

\* The memory of a structure as the sequence of its fields, and back.
ProxyMsgFields(m) ==
    <<m.reserved0, m.monitor_pid, m.init_pid,
      m.sizes.notif, m.sizes.notif_resp, m.sizes.data, m.cookie_len>>
ProxyMsgOf(s) ==
    [reserved0 |-> s[1], monitor_pid |-> s[2], init_pid |-> s[3],
     sizes |-> [notif |-> s[4], notif_resp |-> s[5], data |-> s[6]],
     cookie_len |-> s[7]]
NotifFields(n) == <<n.id, n.rest>>
NotifOf(s) == [id |-> s[1], rest |-> s[2]]
RespFields(r) == <<r.id, r.val, r.error, r.flags>>
RespOf(s) == [id |-> s[1], val |-> s[2], error |-> s[3], flags |-> s[4]]

\* ------------------------------------------------------------- accessors
capacity(self) == Len(self.cookie_buf.mem)
request(self) == self.seccomp_notif
cookie(self) == SubSeq(self.cookie_buf.mem, 1, self.cookie_buf.len)
\* usize::try_from(u64)
FitsUsize(v) == v <= usize_max

\* ------------------------------------------------------------ operations
\* The cookie buffer comes from tools::vec::uninitialized(max_cookie): storage
\* for max_cookie bytes of unspecified content, logically empty.
new(max_cookie, uninit) ==
    [proxy_msg |-> ZeroedProxyMsg,
     seccomp_notif |-> ZeroedNotif,
     seccomp_resp |-> ZeroedResp,
     cookie_buf |-> [mem |-> uninit, len |-> 0],
     sizes |-> SECCOMP_SIZES,
     seccomp_packet_size |-> SizeOfProxyMsg + SECCOMP_SIZES.notif + SECCOMP_SIZES.notif_resp,
     pid_fd |-> None,
     mem_fd |-> None]

\* drop_fds that releases pid_fd only
drop_fds_pid_only(self) == [self EXCEPT !.pid_fd = None]

drop_fds(self) == [self EXCEPT !.pid_fd = None, !.mem_fd = None]

\* prepare_response without the copy of the request id
prepare_response_no_id(self) ==
    [self EXCEPT !.seccomp_resp.val = -1, !.seccomp_resp.error = -ENOSYS,
                 !.seccomp_resp.flags = 0]

prepare_response(self) ==
    [self EXCEPT !.seccomp_resp =
        [id |-> request(self).id, val |-> -1, error |-> -ENOSYS, flags |-> 0]]

\* check_sizes that leaves out the data size
check_sizes_no_data(self) ==
    LET got == self.proxy_msg.sizes IN
    /\ got.notif = self.sizes.notif
    /\ got.notif_resp = self.sizes.notif_resp

check_sizes(self) ==
    LET got == self.proxy_msg.sizes IN
    /\ got.notif = self.sizes.notif
    /\ got.notif_resp = self.sizes.notif_resp
    /\ got.data = self.sizes.data

\* self.seccomp_packet_size + cookie_len in the size type: the sum wraps in a
\* build without overflow checks
WrappingAdd(a, b) == (a + b) % (usize_max + 1)

\* set_len whose first check lets a packet one unit short through
set_len_short(self, len) ==
    IF len + 1 < self.seccomp_packet_size
    THEN [self |-> self, res |-> "too short"]
    ELSE IF self.proxy_msg.reserved0 # 0
    THEN [self |-> self, res |-> "reserved"]
    ELSE IF ~check_sizes(self)
    THEN [self |-> self, res |-> "sizes"]
    ELSE IF len - self.seccomp_packet_size > capacity(self)
    THEN [self |-> self, res |-> "too long"]
    ELSE IF ~FitsUsize(self.proxy_msg.cookie_len)
    THEN [self |-> [self EXCEPT !.proxy_msg.cookie_len = 0], res |-> "overflow"]
    ELSE LET cookie_len == self.proxy_msg.cookie_len IN
         IF self.seccomp_packet_size + cookie_len > usize_max /\ overflow_checks
         THEN [self |-> self, res |-> "panic"]
         ELSE IF len # WrappingAdd(self.seccomp_packet_size, cookie_len)
         THEN [self |-> self, res |-> "mismatch"]
         ELSE [self |-> prepare_response([self EXCEPT !.cookie_buf.len = cookie_len]),
               res |-> "Ok"]

\* set_len whose last check tolerates bytes after the announced cookie
set_len_tolerant(self, len) ==
    IF len < self.seccomp_packet_size
    THEN [self |-> self, res |-> "too short"]
    ELSE IF self.proxy_msg.reserved0 # 0
    THEN [self |-> self, res |-> "reserved"]
    ELSE IF ~check_sizes(self)
    THEN [self |-> self, res |-> "sizes"]
    ELSE IF len - self.seccomp_packet_size > capacity(self)
    THEN [self |-> self, res |-> "too long"]
    ELSE IF ~FitsUsize(self.proxy_msg.cookie_len)
    THEN [self |-> [self EXCEPT !.proxy_msg.cookie_len = 0], res |-> "overflow"]
    ELSE LET cookie_len == self.proxy_msg.cookie_len IN
         IF self.seccomp_packet_size + cookie_len > usize_max /\ overflow_checks
         THEN [self |-> self, res |-> "panic"]
         ELSE IF len < WrappingAdd(self.seccomp_packet_size, cookie_len)
         THEN [self |-> self, res |-> "mismatch"]
         ELSE [self |-> prepare_response([self EXCEPT !.cookie_buf.len = cookie_len]),
               res |-> "Ok"]

\* set_len that compares the sizes before it looks at reserved0
set_len_sizes_first(self, len) ==
    IF len < self.seccomp_packet_size
    THEN [self |-> self, res |-> "too short"]
    ELSE IF ~check_sizes(self)
    THEN [self |-> self, res |-> "sizes"]
    ELSE IF self.proxy_msg.reserved0 # 0
    THEN [self |-> self, res |-> "reserved"]
    ELSE IF len - self.seccomp_packet_size > capacity(self)
    THEN [self |-> self, res |-> "too long"]
    ELSE IF ~FitsUsize(self.proxy_msg.cookie_len)
    THEN [self |-> [self EXCEPT !.proxy_msg.cookie_len = 0], res |-> "overflow"]
    ELSE LET cookie_len == self.proxy_msg.cookie_len IN
         IF self.seccomp_packet_size + cookie_len > usize_max /\ overflow_checks
         THEN [self |-> self, res |-> "panic"]
         ELSE IF len # WrappingAdd(self.seccomp_packet_size, cookie_len)
         THEN [self |-> self, res |-> "mismatch"]
         ELSE [self |-> prepare_response([self EXCEPT !.cookie_buf.len = cookie_len]),
               res |-> "Ok"]

\* set_len that leaves cookie_len as received when it does not convert
set_len_no_reset(self, len) ==
    IF len < self.seccomp_packet_size
    THEN [self |-> self, res |-> "too short"]
    ELSE IF self.proxy_msg.reserved0 # 0
    THEN [self |-> self, res |-> "reserved"]
    ELSE IF ~check_sizes(self)
    THEN [self |-> self, res |-> "sizes"]
    ELSE IF len - self.seccomp_packet_size > capacity(self)
    THEN [self |-> self, res |-> "too long"]
    ELSE IF ~FitsUsize(self.proxy_msg.cookie_len)
    THEN [self |-> self, res |-> "overflow"]
    ELSE LET cookie_len == self.proxy_msg.cookie_len IN
         IF self.seccomp_packet_size + cookie_len > usize_max /\ overflow_checks
         THEN [self |-> self, res |-> "panic"]
         ELSE IF len # WrappingAdd(self.seccomp_packet_size, cookie_len)
         THEN [self |-> self, res |-> "mismatch"]
         ELSE [self |-> prepare_response([self EXCEPT !.cookie_buf.len = cookie_len]),
               res |-> "Ok"]

\* set_len returns the buffer as it leaves it and the result: "Ok", the error,
\* or "panic" when the addition overflows in a build with overflow checks.
set_len(self, len) ==
    IF len < self.seccomp_packet_size
    THEN [self |-> self, res |-> "too short"]
    ELSE IF self.proxy_msg.reserved0 # 0
    THEN [self |-> self, res |-> "reserved"]
    ELSE IF ~check_sizes(self)
    THEN [self |-> self, res |-> "sizes"]
    ELSE IF len - self.seccomp_packet_size > capacity(self)
    THEN [self |-> self, res |-> "too long"]
    ELSE IF ~FitsUsize(self.proxy_msg.cookie_len)
    THEN [self |-> [self EXCEPT !.proxy_msg.cookie_len = 0], res |-> "overflow"]
    ELSE LET cookie_len == self.proxy_msg.cookie_len IN
         IF self.seccomp_packet_size + cookie_len > usize_max /\ overflow_checks
         THEN [self |-> self, res |-> "panic"]
         ELSE IF len # WrappingAdd(self.seccomp_packet_size, cookie_len)
         THEN [self |-> self, res |-> "mismatch"]
         ELSE [self |-> prepare_response([self EXCEPT !.cookie_buf.len = cookie_len]),
               res |-> "Ok"]

\* ------------------------------------------------------------- transport
\* The first part of recv, up to the await: cookie_len and the cookie's
\* logical length are reset before the regions are handed to the socket.
\* recv that resets cookie_len and leaves the cookie's logical length
recv_begin_keep_len(self) == [self EXCEPT !.proxy_msg.cookie_len = 0]

recv_begin(self) ==
    [self EXCEPT !.proxy_msg.cookie_len = 0, !.cookie_buf.len = 0]

\* One region after a scatter read of `data`: the region starts `off` units
\* into the packet; units the packet does not reach keep their content.
Overlay(old, data, off) ==
    [i \in 1..Len(old) |-> IF off + i <= Len(data) THEN data[off + i] ELSE old[i]]

\* recv_fds_vectored over the four regions, in the order of the iovec array.
scatter(self, data) ==
    [self EXCEPT
        !.proxy_msg = ProxyMsgOf(Overlay(ProxyMsgFields(self.proxy_msg), data, 0)),
        !.seccomp_notif = NotifOf(Overlay(NotifFields(self.seccomp_notif), data, SizeOfProxyMsg)),
        !.seccomp_resp = RespOf(Overlay(RespFields(self.seccomp_resp), data,
                                        SizeOfProxyMsg + SizeOfNotif)),
        !.cookie_buf.mem = Overlay(self.cookie_buf.mem, data,
                                   SizeOfProxyMsg + SizeOfNotif + SizeOfResp)]

\* The descriptors the kernel installs for a message carrying n of them: the
\* lowest numbers not open in the process.
RECURSIVE LowestFree(_, _)
LowestFree(open, n) ==
    IF n = 0 THEN <<>>
    ELSE LET f == CHOOSE x \in 1..(Cardinality(open) + 1) :
                     x \notin open /\ \A y \in 1..(x - 1) : y \in open
         IN <<f>> \o LowestFree(open \cup {f}, n - 1)

Range(s) == {s[i] : i \in 1..Len(s)}
Held(self) == {self.pid_fd, self.mem_fd} \ {None}

\* recv's descriptor step without the drop_fds of the missing-descriptor path
store_fds_keep_first(self, fds) ==
    LET first == IF Len(fds) >= 1 THEN fds[1] ELSE None
        second == IF Len(fds) >= 2 THEN fds[2] ELSE None
        stored == [self EXCEPT !.pid_fd = first, !.mem_fd = second]
    IN IF second = None
       THEN [self |-> stored, closed |-> Held(self), res |-> "missing fds"]
       ELSE [self |-> stored, closed |-> Held(self), res |-> "Ok(true)"]

\* Lines 133-139 of recv: the received descriptors move into the buffer; the
\* result names the buffer, the descriptors dropped on the way and the return.
store_fds(self, fds) ==
    LET first == IF Len(fds) >= 1 THEN fds[1] ELSE None
        second == IF Len(fds) >= 2 THEN fds[2] ELSE None
        stored == [self EXCEPT !.pid_fd = first, !.mem_fd = second]
    IN IF second = None
       THEN [self |-> drop_fds(stored), closed |-> Held(self) \cup Held(stored),
             res |-> "missing fds"]
       ELSE [self |-> stored, closed |-> Held(self), res |-> "Ok(true)"]

\* recv that keeps the received descriptors open when set_len fails
recv_validated_leak(v, fds) ==
    IF v.res = "panic"
    THEN [self |-> v.self, closed |-> Range(fds) \cup Held(v.self), res |-> "panic"]
    ELSE IF v.res # "Ok"
    THEN [self |-> v.self, closed |-> {}, res |-> v.res]
    ELSE store_fds(v.self, fds)

\* recv after set_len returned v: an error is passed on with `?` and the local
\* vector of received descriptors is dropped; a panic unwinds the task, which
\* drops the buffer as well.
recv_validated(v, fds) ==
    IF v.res = "panic"
    THEN [self |-> v.self, closed |-> Range(fds) \cup Held(v.self), res |-> "panic"]
    ELSE IF v.res # "Ok"
    THEN [self |-> v.self, closed |-> Range(fds), res |-> v.res]
    ELSE store_fds(v.self, fds)

\* recv without the test for a zero-byte read
recv_end_no_eof(self, data, fds) ==
    recv_validated(set_len(scatter(self, data), Len(data)), fds)

\* The part of recv after the await, for a read that returned `data` and `fds`.
recv_end(self, data, fds) ==
    IF Len(data) = 0
    THEN [self |-> self, closed |-> Range(fds), res |-> "Ok(false)"]
    ELSE recv_validated(set_len(scatter(self, data), Len(data)), fds)

\* respond that sends the cookie after the response
respond_iov_with_cookie(self) ==
    <<ProxyMsgFields(self.proxy_msg), NotifFields(self.seccomp_notif),
      RespFields(self.seccomp_resp), cookie(self)>>

\* respond: the three regions handed to sendmsg_vectored, in order.
respond_iov(self) ==
    <<ProxyMsgFields(self.proxy_msg), NotifFields(self.seccomp_notif),
      RespFields(self.seccomp_resp)>>

\* ---------------------------------------------------------------- inputs
KernelSizesSeen ==
    { SECCOMP_SIZES,
      [SECCOMP_SIZES EXCEPT !.notif = @ + 1],
      [SECCOMP_SIZES EXCEPT !.notif_resp = @ + 1],
      [SECCOMP_SIZES EXCEPT !.data = @ + 1] }
\* cookie lengths the peer announces: those that fit the buffer, the largest
\* value of a narrow size type and the largest 64-bit value
CookieLens == (0..MaxCookie) \cup {UsizeNarrowMax, U64Max}
Envelopes ==
    [reserved0 : {0, 1}, monitor_pid : {5}, init_pid : {6},
     sizes : KernelSizesSeen, cookie_len : CookieLens]
Notifs == [id : {1, 2}, rest : {0}]
\* what the peer leaves in the response region
PeerResp == [id |-> 3, val |-> 0, error |-> 0, flags |-> 1]
\* the cookie of a packet: k bytes
CookieOf(k) == [i \in 1..k |-> 7]
\* a byte of the cookie buffer that was never written
Uninit == 0

Packet(e, n, k) == ProxyMsgFields(e) \o NotifFields(n) \o RespFields(PeerResp) \o CookieOf(k)
FixedSize == SizeOfProxyMsg + SizeOfNotif + SizeOfResp
\* lengths at which a packet is cut short
ShortLens == {0, 1, FixedSize - 1}
Packets ==
    LET full == {Packet(e, n, k) : e \in Envelopes, n \in Notifs, k \in 0..MaxCookie}
    IN full \cup {SubSeq(p, 1, k) : p \in full, k \in ShortLens}

\* lengths a caller passes to set_len directly
DirectLens == {FixedSize - 1} \cup (FixedSize..(FixedSize + MaxCookie + 1))

NoCall == [op |-> "new", res |-> "Ok", len |-> 0, env |-> ZeroedProxyMsg, fds |-> <<>>]
Call(op, res) == [NoCall EXCEPT !.op = op, !.res = res]

\* what the variable buf holds once the buffer has been dropped
Freed == new(MaxCookie, [i \in 1..MaxCookie |-> Uninit])

\* ------------------------------------------------------------- process
Tasks == 1..MaxTasks
\* The process before its first connection: SECCOMP_SIZES not yet computed.
ProcStart ==
    [cell |-> "uninit", queries |-> 0,
     task |-> [t \in Tasks |-> "none"],
     sizes |-> [t \in Tasks |-> None]]
\* The process once the first connection's buffer has been constructed.
ProcServing ==
    [cell |-> "done", queries |-> 1,
     task |-> [t \in Tasks |-> IF t = 1 THEN "serving" ELSE "none"],
     sizes |-> [t \in Tasks |-> IF t = 1 THEN SECCOMP_SIZES ELSE None]]

\* ----------------------------------------------------------------- state
Init ==
    /\ proc = ProcServing
    /\ usize_max \in {UsizeNarrowMax, U64Max}
    /\ overflow_checks \in BOOLEAN
    /\ buf = new(MaxCookie, [i \in 1..MaxCookie |-> Uninit])
    /\ pc = "idle"
    /\ open_fds = {}
    /\ last = NoCall
    /\ sent = <<>>

\* recv up to its suspension point.
RecvBegin ==
    /\ pc = "idle"
    /\ buf' = recv_begin(buf)
    /\ pc' = "recv"
    /\ last' = Call("recv", "pending")
    /\ sent' = <<>>
    /\ UNCHANGED <<open_fds, usize_max, overflow_checks, proc>>

\* recv from the completion of the read to its return.
RecvEnd ==
    /\ pc = "recv"
    /\ \E data \in Packets, n \in 0..2 :
         \E fds \in {LowestFree(open_fds, n)} : \E r \in {recv_end(buf, data, fds)} :
            /\ buf' = IF r.res = "panic" THEN Freed ELSE r.self
            /\ open_fds' = (open_fds \cup Range(fds)) \ r.closed
            /\ pc' = IF r.res = "panic" THEN "dropped" ELSE "idle"
            /\ last' = [op |-> "recv", res |-> r.res, len |-> Len(data),
                        env |-> scatter(buf, data).proxy_msg, fds |-> fds]
    /\ UNCHANGED <<sent, usize_max, overflow_checks, proc>>

\* A recv that finds the end of the stream at once: the whole call, without a
\* suspension.
RecvEof ==
    /\ pc = "idle"
    /\ \E n \in 0..2 :
         \E fds \in {LowestFree(open_fds, n)} : \E r \in {recv_end(recv_begin(buf), <<>>, fds)} :
            /\ buf' = r.self
            /\ open_fds' = (open_fds \cup Range(fds)) \ r.closed
            /\ last' = [op |-> "recv", res |-> r.res, len |-> 0,
                        env |-> r.self.proxy_msg, fds |-> fds]
    /\ sent' = <<>>
    /\ UNCHANGED <<pc, usize_max, overflow_checks, proc>>

\* The read fails with an I/O error: recv returns it.
RecvIoError ==
    /\ pc = "recv"
    /\ pc' = "idle"
    /\ last' = Call("recv", "io")
    /\ UNCHANGED <<buf, open_fds, sent, usize_max, overflow_checks, proc>>

\* A direct call of the public set_len.
SetLen ==
    /\ pc = "idle"
    /\ \E len \in DirectLens : \E v \in {set_len(buf, len)} :
         /\ buf' = IF v.res = "panic" THEN Freed ELSE v.self
         /\ open_fds' = IF v.res = "panic" THEN open_fds \ Held(buf) ELSE open_fds
         /\ pc' = IF v.res = "panic" THEN "dropped" ELSE "idle"
         /\ last' = [op |-> "set_len", res |-> v.res, len |-> len,
                     env |-> buf.proxy_msg, fds |-> <<>>]
    /\ sent' = <<>>
    /\ UNCHANGED <<usize_max, overflow_checks, proc>>

DropFds ==
    /\ pc = "idle"
    /\ buf' = drop_fds(buf)
    /\ open_fds' = open_fds \ Held(buf)
    /\ last' = Call("drop_fds", "Ok")
    /\ sent' = <<>>
    /\ UNCHANGED <<pc, usize_max, overflow_checks, proc>>

\* The syscall handler, given a received message, writes its verdict through
\* response_mut.
WriteResponse ==
    /\ pc = "idle"
    /\ last.op = "recv" /\ last.res = "Ok(true)"
    /\ buf' = [buf EXCEPT !.seccomp_resp.val = 0, !.seccomp_resp.error = 0]
    /\ last' = Call("response_mut", "Ok")
    /\ sent' = <<>>
    /\ UNCHANGED <<pc, open_fds, usize_max, overflow_checks, proc>>

\* respond up to its suspension point.
RespondBegin ==
    /\ pc = "idle"
    /\ pc' = "respond"
    /\ last' = Call("respond", "pending")
    /\ sent' = <<>>
    /\ UNCHANGED <<buf, open_fds, usize_max, overflow_checks, proc>>

\* The write completes.
RespondEnd ==
    /\ pc = "respond"
    /\ pc' = "idle"
    /\ sent' = respond_iov(buf)
    /\ last' = Call("respond", "Ok")
    /\ UNCHANGED <<buf, open_fds, usize_max, overflow_checks, proc>>

\* The write fails with an I/O error: respond returns it.
RespondIoError ==
    /\ pc = "respond"
    /\ pc' = "idle"
    /\ last' = Call("respond", "io")
    /\ UNCHANGED <<buf, open_fds, sent, usize_max, overflow_checks, proc>>

\* The task that owns the buffer ends or is dropped, at a suspension point of
\* recv or respond or between two calls: the buffer and its descriptors go.
Drop ==
    /\ pc \in {"idle", "recv", "respond"}
    /\ pc' = "dropped"
    /\ buf' = Freed
    /\ open_fds' = open_fds \ Held(buf)
    /\ last' = Call("drop", "Ok")
    /\ sent' = <<>>
    /\ UNCHANGED <<usize_max, overflow_checks, proc>>

Next ==
    \/ RecvBegin
    \/ RecvEnd
    \/ RecvEof
    \/ RecvIoError
    \/ SetLen
    \/ DropFds
    \/ WriteResponse
    \/ RespondBegin
    \/ RespondEnd
    \/ RespondIoError
    \/ Drop

Spec == Init /\ [][Next]_vars

\* ------------------------------------------ the process and its tasks
\* A dereference of the lazy static SECCOMP_SIZES, by the state of its cell:
\* the first one runs the initializer, one that comes while the initializer
\* runs waits for it, later ones read the value; after the initializer
\* panicked the cell is poisoned and every dereference panics.
lazy_get_racy(cell) ==
    CASE cell = "uninit" -> "init"
      [] cell = "running" -> "init"
      [] cell = "done" -> "value"
      [] OTHER -> "panic"

lazy_get(cell) ==
    CASE cell = "uninit" -> "init"
      [] cell = "running" -> "wait"
      [] cell = "done" -> "value"
      [] OTHER -> "panic"

\* The client loop may call recv: at its start and after a response was sent.
ClientMayRecv_any == TRUE

ClientMayRecv ==
    \/ last.op = "new"
    \/ last.op = "respond" /\ last.res = "Ok"

\* A received message is with the handler, not yet answered.
MessagePending ==
    \/ last.op = "recv" /\ last.res = "Ok(true)"
    \/ last.op \in {"response_mut", "set_len", "drop_fds"}

\* The state of the process when main enters do_main.
SysInit ==
    /\ proc = ProcStart
    /\ usize_max \in {UsizeNarrowMax, U64Max}
    /\ overflow_checks \in BOOLEAN
    /\ buf = Freed
    /\ pc = "none"
    /\ open_fds = {}
    /\ last = Call("none", "Ok")
    /\ sent = <<>>

\* do_main's loop: accept the next connection and spawn its task.
Accept ==
    /\ \E t \in Tasks :
         /\ proc.task[t] = "none"
         /\ \A u \in 1..(t - 1) : proc.task[u] # "none"
         /\ proc' = [proc EXCEPT !.task[t] = "spawned"]
    /\ UNCHANGED <<buf, pc, open_fds, last, sent, usize_max, overflow_checks>>

\* Task t has its buffer: ProxyMessageBuffer::new returned with a copy of the
\* sizes. Task 1 is the connection whose buffer the model follows.
Built(t) ==
    /\ buf' = IF t = 1 THEN new(MaxCookie, [i \in 1..MaxCookie |-> Uninit]) ELSE buf
    /\ pc' = IF t = 1 THEN "idle" ELSE pc
    /\ last' = IF t = 1 THEN NoCall ELSE last
    /\ UNCHANGED <<open_fds, sent, usize_max, overflow_checks>>

\* Task t calls ProxyMessageBuffer::new and is the first to dereference
\* SECCOMP_SIZES: it starts the kernel query.
QueryBegin(t) ==
    /\ proc.task[t] = "spawned"
    /\ lazy_get(proc.cell) = "init"
    /\ proc' = [proc EXCEPT !.cell = "running", !.queries = @ + 1, !.task[t] = "init"]
    /\ UNCHANGED <<buf, pc, open_fds, last, sent, usize_max, overflow_checks>>

\* The query succeeds: the value is stored and new goes on with a copy of it.
QueryOk(t) ==
    /\ proc.task[t] = "init"
    /\ proc' = [proc EXCEPT !.cell = "done", !.task[t] = "serving",
                             !.sizes[t] = SECCOMP_SIZES]
    /\ Built(t)

\* The query fails: the initializer panics in the task that ran it.
QueryFail(t) ==
    /\ proc.task[t] = "init"
    /\ proc' = [proc EXCEPT !.cell = "poisoned", !.task[t] = "panicked"]
    /\ UNCHANGED <<buf, pc, open_fds, last, sent, usize_max, overflow_checks>>

\* Task t calls ProxyMessageBuffer::new when the sizes are there.
Construct(t) ==
    /\ proc.task[t] = "spawned"
    /\ lazy_get(proc.cell) = "value"
    /\ proc' = [proc EXCEPT !.task[t] = "serving", !.sizes[t] = SECCOMP_SIZES]
    /\ Built(t)

\* Task t calls ProxyMessageBuffer::new after the query failed.
ConstructPoisoned(t) ==
    /\ proc.task[t] = "spawned"
    /\ lazy_get(proc.cell) = "panic"
    /\ proc' = [proc EXCEPT !.task[t] = "panicked"]
    /\ UNCHANGED <<buf, pc, open_fds, last, sent, usize_max, overflow_checks>>

\* The client loop of the followed connection.
ClientRecv == ClientMayRecv /\ RecvBegin
ClientRecvEof == ClientMayRecv /\ RecvEof
ClientSetLen == MessagePending /\ SetLen
ClientDropFds == MessagePending /\ DropFds
ClientRespond == MessagePending /\ RespondBegin

SysNext ==
    \/ Accept
    \/ \E t \in Tasks : QueryBegin(t)
    \/ \E t \in Tasks : QueryOk(t)
    \/ \E t \in Tasks : QueryFail(t)
    \/ \E t \in Tasks : Construct(t)
    \/ \E t \in Tasks : ConstructPoisoned(t)
    \/ ClientRecv
    \/ RecvEnd
    \/ ClientRecvEof
    \/ RecvIoError
    \/ ClientSetLen
    \/ ClientDropFds
    \/ WriteResponse
    \/ ClientRespond
    \/ RespondEnd
    \/ RespondIoError
    \/ Drop

SystemSpec == SysInit /\ [][SysNext]_vars

\* ---------------------------------------------------------------- claims
\* the last call ran set_len to its end: a recv that read something, or a
\* direct set_len
RanSetLen ==
    \/ last.op = "set_len"
    \/ last.op = "recv" /\ last.len > 0 /\ last.res \notin {"pending", "io"}
\* set_len returned Ok in the last call
Validated ==
    \/ last.op = "set_len" /\ last.res = "Ok"
    \/ last.op = "recv" /\ last.res \in {"Ok(true)", "missing fds"}
\* the last recv failed in set_len
ValidationErrors == {"too short", "reserved", "sizes", "too long", "overflow", "mismatch"}

\* C1: validation of byte_count succeeds exactly when byte_count is at least
\* the fixed packet size, reserved0 is zero, the three envelope sizes equal the
\* captured sizes, the bytes after the fixed part fit the cookie capacity,
\* cookie_len fits the size type and fixed_packet_size + cookie_len equals
\* byte_count; after a success the cookie's length is cookie_len, within the
\* capacity.
C1_ValidationExact ==
    RanSetLen =>
        /\ Validated <=>
              /\ last.len >= buf.seccomp_packet_size
              /\ last.env.reserved0 = 0
              /\ last.env.sizes.notif = buf.sizes.notif
              /\ last.env.sizes.notif_resp = buf.sizes.notif_resp
              /\ last.env.sizes.data = buf.sizes.data
              /\ last.len - buf.seccomp_packet_size <= capacity(buf)
              /\ last.env.cookie_len <= usize_max
              /\ buf.seccomp_packet_size + last.env.cookie_len = last.len
        /\ Validated =>
              /\ buf.seccomp_packet_size + buf.proxy_msg.cookie_len = last.len
              /\ Len(cookie(buf)) = buf.proxy_msg.cookie_len
              /\ Len(cookie(buf)) <= capacity(buf)
\* a message with a full cookie was received
C1_Witness ==
    /\ last.op = "recv" /\ last.res = "Ok(true)"
    /\ Len(cookie(buf)) = MaxCookie
    /\ last.len = buf.seccomp_packet_size + MaxCookie

\* C2: after a successful validation the response carries the notification's
\* id, val -1, error -ENOSYS and flags 0, whatever the peer sent there.
C2_ResponsePrepared ==
    Validated =>
        /\ buf.seccomp_resp.id = buf.seccomp_notif.id
        /\ buf.seccomp_resp.val = -1
        /\ buf.seccomp_resp.error = -38
        /\ buf.seccomp_resp.flags = 0
\* a message with notification id 2 was received, the peer's response region
\* holding another id
C2_Witness ==
    /\ last.op = "recv" /\ last.res = "Ok(true)"
    /\ buf.seccomp_notif.id = 2
    /\ PeerResp.id # 2 /\ PeerResp.flags # 0

\* the last call was a recv whose read returned at least one byte
NonzeroRecv == last.op = "recv" /\ last.len > 0 /\ last.res # "pending"

\* C3: a nonzero read replaces the descriptors, and a recv that fails with a
\* validation or protocol error leaves the buffer without descriptors.
C3_NoFdsAfterFailedRecv ==
    NonzeroRecv =>
        /\ last.res = "Ok(true)" => Held(buf) = Range(last.fds)
        /\ last.res \in ValidationErrors \cup {"missing fds"} => Held(buf) = {}

\* C4: a recv whose nonzero read delivers fewer than two descriptors fails and
\* leaves the buffer without descriptors.
C4_FewerThanTwoFds ==
    (NonzeroRecv /\ Len(last.fds) < 2) =>
        /\ last.res \notin {"Ok(true)", "Ok(false)"}
        /\ Held(buf) = {}

\* C5 as claimed: a recv whose read returns zero bytes returns Ok(false) and
\* leaves the buffer as it was before the call.
C5_ZeroReadLeavesBuffer ==
    [][(pc = "idle" /\ last'.op = "recv" /\ last'.len = 0 /\ last'.res # "pending"
            /\ last'.res # "io")
        => (last'.res = "Ok(false)" /\ buf' = buf)]_vars
\* C5 as amended: a recv whose read returns zero bytes returns Ok(false), sets
\* the envelope's cookie_len and the cookie's logical length to zero, and
\* leaves the rest of the envelope, the notification, the response, the cookie
\* memory and both descriptors as they were.
C5_ZeroReadResetsCookieOnly ==
    [][/\ (pc = "idle" /\ last'.op = "recv" /\ last'.len = 0 /\ last'.res # "pending"
             /\ last'.res # "io")
          => /\ last'.res = "Ok(false)"
             /\ buf' = [buf EXCEPT !.proxy_msg.cookie_len = 0, !.cookie_buf.len = 0]
             /\ open_fds' = open_fds
       /\ (pc = "recv" /\ last'.op = "recv" /\ last'.len = 0 /\ last'.res # "io")
          => /\ last'.res = "Ok(false)"
             /\ buf' = buf
             /\ open_fds' = open_fds]_vars
\* the end of the stream was read by a buffer that holds a received message
\* and its descriptors
C5_Witness ==
    /\ last.op = "recv" /\ last.res = "Ok(false)"
    /\ Held(buf) # {}
    /\ buf.seccomp_resp.val = -1
    /\ buf.proxy_msg.sizes = buf.sizes

\* C6: every descriptor the transport delivered is held by the buffer or has
\* been released: the descriptors open in the process are those the buffer
\* holds, and none once the buffer is dropped.
C6_NoDescriptorLeaked ==
    /\ open_fds = Held(buf)
    /\ pc = "dropped" => open_fds = {}
\* one descriptor arrived with a valid message while the buffer held two, and
\* all three are released
C6_Witness ==
    /\ last.op = "recv" /\ last.res = "missing fds"
    /\ Len(last.fds) = 1 /\ last.fds[1] = 3
    /\ open_fds = {}

\* the four regions of a buffer as the read sees them, one after the other
Regions(self) ==
    ProxyMsgFields(self.proxy_msg) \o NotifFields(self.seccomp_notif)
        \o RespFields(self.seccomp_resp) \o self.cookie_buf.mem

\* C7: a recv whose read reports 1 <= byte_count < fixed_packet_size fails
\* with "too short"; the cookie's logical length stays 0, every unit the read
\* did not reach is as it was (no response preparation), and the descriptors
\* held are those held before.
C7_TooShort ==
    [][(pc = "recv" /\ last'.op = "recv" /\ last'.len >= 1
            /\ last'.len < buf.seccomp_packet_size)
        => /\ last'.res = "too short"
           /\ buf'.cookie_buf.len = 0
           /\ \A i \in (last'.len + 1)..Len(Regions(buf)) :
                 Regions(buf')[i] = Regions(buf)[i]
           /\ buf'.pid_fd = buf.pid_fd /\ buf'.mem_fd = buf.mem_fd
           /\ open_fds' = open_fds]_vars
\* a packet one unit short arrived with two descriptors while the buffer held
\* a prepared response
C7_Witness ==
    /\ last.op = "recv" /\ last.res = "too short"
    /\ last.len = buf.seccomp_packet_size - 1
    /\ Len(last.fds) = 2
    /\ Held(buf) # {}

\* the last recv read a whole envelope, whose sizes differ from the captured
\* sizes
SizesDiffer ==
    /\ NonzeroRecv
    /\ last.len >= SizeOfProxyMsg
    /\ \/ last.env.sizes.notif # buf.sizes.notif
       \/ last.env.sizes.notif_resp # buf.sizes.notif_resp
       \/ last.env.sizes.data # buf.sizes.data

\* C8 as claimed: a receive of a whole packet whose envelope sizes differ from
\* the captured sizes in any field fails with "size validation failed".
C8_SizesAlwaysSizeError ==
    (SizesDiffer /\ last.len >= buf.seccomp_packet_size) => last.res = "sizes"
\* C8 as amended: a receive whose envelope sizes differ from the captured
\* sizes in any field always fails, and with "size validation failed" unless
\* the message is too short or its reserved field is nonzero, which are
\* reported first.
C8_SizesRejected ==
    SizesDiffer =>
        /\ last.res \in {"too short", "reserved", "sizes"}
        /\ last.res = "too short" <=> last.len < buf.seccomp_packet_size
        /\ last.res = "reserved" <=>
              (last.len >= buf.seccomp_packet_size /\ last.env.reserved0 # 0)
\* a message whose lengths match and whose data size alone differs
C8_Witness ==
    /\ last.op = "recv" /\ last.res = "sizes"
    /\ last.len = buf.seccomp_packet_size + last.env.cookie_len
    /\ last.env.sizes.notif = buf.sizes.notif
    /\ last.env.sizes.notif_resp = buf.sizes.notif_resp
    /\ last.env.sizes.data # buf.sizes.data

\* C9: the cookie's logical length is zero when the read begins, is zero
\* after a recv that fails validation, and grows only in a call whose
\* validation succeeds.
C9_CookieGrowsOnlyValidated ==
    [][/\ pc' = "recv" => buf'.cookie_buf.len = 0
       /\ (last'.op = "recv" /\ last'.res \in ValidationErrors) => Len(cookie(buf')) = 0
       /\ buf'.cookie_buf.len > buf.cookie_buf.len =>
             \/ last'.op = "set_len" /\ last'.res = "Ok"
             \/ last'.op = "recv" /\ last'.res \in {"Ok(true)", "missing fds"}]_vars
\* a message with reserved0 = 1 and a cookie was rejected by a buffer that
\* holds the cookie bytes of an earlier message
C9_Witness ==
    /\ last.op = "recv" /\ last.res = "reserved"
    /\ last.env.reserved0 = 1
    /\ last.len = buf.seccomp_packet_size + MaxCookie
    /\ Held(buf) # {}
    /\ Len(cookie(buf)) = 0

\* C10: between calls, cookie_len() returns the length of cookie().
C10_CookieLenIsCookieLength ==
    pc = "idle" =>
        /\ FitsUsize(buf.proxy_msg.cookie_len)
        /\ buf.proxy_msg.cookie_len = Len(cookie(buf))

\* the first five checks of set_len pass for the message of the last call
PassesFirstFive ==
    /\ last.len >= buf.seccomp_packet_size
    /\ last.env.reserved0 = 0
    /\ last.env.sizes = buf.sizes
    /\ last.len - buf.seccomp_packet_size <= capacity(buf)
    /\ last.env.cookie_len <= usize_max

\* C11: a message that passes the too-short, reserved, size, too-long and
\* overflow checks but whose cookie_len differs from byte_count minus the
\* fixed packet size is rejected with the length-mismatch error.
C11_MismatchRejected ==
    (RanSetLen /\ PassesFirstFive
       /\ last.env.cookie_len # last.len - buf.seccomp_packet_size)
    => last.res = "mismatch"

\* C12: respond writes exactly the envelope, the notification and the
\* response, in this order, in one write, without the cookie and without a
\* descriptor; it leaves the buffer and its descriptors as they were, on
\* success and on an I/O error, and an I/O error is returned with nothing
\* sent again.
C12_RespondThreeRegions ==
    [][/\ (pc' = "respond" \/ (pc = "respond" /\ pc' = "idle")) =>
             (buf' = buf /\ open_fds' = open_fds)
       /\ (pc = "respond" /\ last'.op = "respond" /\ last'.res = "Ok") =>
             /\ Len(sent') = 3
             /\ sent'[1] = <<buf.proxy_msg.reserved0, buf.proxy_msg.monitor_pid,
                             buf.proxy_msg.init_pid, buf.proxy_msg.sizes.notif,
                             buf.proxy_msg.sizes.notif_resp, buf.proxy_msg.sizes.data,
                             buf.proxy_msg.cookie_len>>
             /\ sent'[2] = <<buf.seccomp_notif.id, buf.seccomp_notif.rest>>
             /\ sent'[3] = <<buf.seccomp_resp.id, buf.seccomp_resp.val,
                             buf.seccomp_resp.error, buf.seccomp_resp.flags>>
             /\ Len(sent'[1]) + Len(sent'[2]) + Len(sent'[3]) = buf.seccomp_packet_size
             /\ pc' = "idle"
       /\ (pc = "respond" /\ last'.op = "respond" /\ last'.res = "io") =>
             /\ sent' = <<>>
             /\ pc' = "idle"]_vars
\* a response was sent from a buffer that holds a cookie and both descriptors
C12_Witness ==
    /\ last.op = "respond" /\ last.res = "Ok"
    /\ Len(sent) = 3
    /\ Len(cookie(buf)) = MaxCookie
    /\ Cardinality(Held(buf)) = 2

C14_NoAcceptAfterFailedQuery ==
    [][proc.cell = "poisoned" =>
          /\ \A t \in Tasks : proc.task[t] = "none" => proc'.task[t] = "none"
          /\ \A t \in Tasks : proc'.task[t] # "serving"
          /\ pc' = "none"]_vars

\* C15: the kernel sizes are computed once per process, also when several
\* tasks construct their buffers at the same time, and never change; every
\* buffer holds a copy equal to them, and a buffer's sizes, fixed packet size
\* and cookie capacity stay what they were at construction under every recv,
\* set_len, drop_fds and respond.
C15_SizesOnceAndConstant ==
    [][/\ proc'.queries <= 1
       /\ proc.cell = "done" => proc'.cell = "done"
       /\ \A t \in Tasks :
             /\ proc'.task[t] = "serving" =>
                   (proc'.cell = "done" /\ proc'.sizes[t] = SECCOMP_SIZES)
             /\ proc.task[t] = "serving" => proc'.sizes[t] = proc.sizes[t]
       /\ pc' \in {"idle", "recv", "respond"} =>
             /\ buf'.sizes = proc'.sizes[1]
             /\ buf'.seccomp_packet_size =
                   SizeOfProxyMsg + buf'.sizes.notif + buf'.sizes.notif_resp
             /\ capacity(buf') = MaxCookie
       /\ (pc \in {"idle", "recv", "respond"} /\ pc' \in {"idle", "recv", "respond"}) =>
             /\ buf'.sizes = buf.sizes
             /\ buf'.seccomp_packet_size = buf.seccomp_packet_size
             /\ capacity(buf') = capacity(buf)]_vars
\* two tasks hold buffers and the followed one has validated a message and
\* dropped its descriptors
C15_Witness ==
    /\ \A t \in Tasks : proc.task[t] = "serving"
    /\ last.op = "drop_fds"
    /\ Len(cookie(buf)) = MaxCookie

\* C16: drop_fds releases both descriptors and nothing else: after it the
\* buffer holds none, envelope, notification, response and cookie are as
\* before, a call on a buffer without descriptors changes nothing, and so does
\* a second call right after a first.
C16_DropFdsIdempotent ==
    [][(pc = "idle" /\ last'.op = "drop_fds") =>
          /\ buf'.pid_fd = None /\ buf'.mem_fd = None
          /\ open_fds' = open_fds \ {buf.pid_fd, buf.mem_fd}
          /\ buf'.proxy_msg = buf.proxy_msg
          /\ buf'.seccomp_notif = buf.seccomp_notif
          /\ buf'.seccomp_resp = buf.seccomp_resp
          /\ buf'.cookie_buf = buf.cookie_buf
          /\ (buf.pid_fd = None /\ buf.mem_fd = None) =>
                (buf' = buf /\ open_fds' = open_fds)
          /\ last.op = "drop_fds" => (buf' = buf /\ open_fds' = open_fds)]_vars
\* drop_fds has run on a buffer that holds a validated message with a cookie
C16_Witness ==
    /\ last.op = "drop_fds"
    /\ buf.seccomp_notif.id = 2
    /\ buf.seccomp_resp.error = 0 - ENOSYS
    /\ Len(cookie(buf)) = MaxCookie
    /\ open_fds = {}

\* the error of the earliest of the six checks that the message of the last
\* call violates, "Ok" when it violates none
FirstViolated ==
    IF last.len < buf.seccomp_packet_size THEN "too short"
    ELSE IF last.env.reserved0 # 0 THEN "reserved"
    ELSE IF last.env.sizes # buf.sizes THEN "sizes"
    ELSE IF last.len - buf.seccomp_packet_size > capacity(buf) THEN "too long"
    ELSE IF last.env.cookie_len > usize_max THEN "overflow"
    ELSE IF buf.seccomp_packet_size + last.env.cookie_len # last.len THEN "mismatch"
    ELSE "Ok"

\* C17: the six checks run in the order too short, reserved, sizes, too
\* long, overflow, length equality and stop at the first that fails: a message
\* that violates one of the first five gets the error of the earliest check it
\* violates, and the checks after that one leave no trace in the buffer (no
\* reset of cookie_len, no cookie length, no prepared response).
C17_EarliestCheckWins ==
    (RanSetLen /\ ~PassesFirstFive) =>
        /\ last.res = FirstViolated
        /\ last.res # "overflow" => buf.proxy_msg = last.env
        /\ last.op = "recv" =>
              /\ Len(cookie(buf)) = 0
              /\ last.len >= buf.seccomp_packet_size => buf.seccomp_resp = PeerResp
\* a message that violates the reserved, the size and the overflow check
C17_Witness ==
    /\ RanSetLen
    /\ last.res = "reserved"
    /\ last.env.sizes # buf.sizes
    /\ last.env.cookie_len > usize_max

\* C18: when cookie_len does not convert to the size type and the four
\* earlier checks pass, validation fails with the overflow error and the
\* envelope's cookie_len is zero afterwards; after every other validation
\* failure the envelope's cookie_len is the one validation found.
C18_OverflowResetsCookieLen ==
    RanSetLen =>
        /\ (/\ last.len >= buf.seccomp_packet_size
            /\ last.env.reserved0 = 0
            /\ last.env.sizes = buf.sizes
            /\ last.len - buf.seccomp_packet_size <= capacity(buf)
            /\ last.env.cookie_len > usize_max) =>
              /\ last.res = "overflow"
              /\ buf.proxy_msg.cookie_len = 0
        /\ last.res \in (ValidationErrors \ {"overflow"}) =>
              buf.proxy_msg.cookie_len = last.env.cookie_len
\* on the narrow platform a received cookie_len beyond the size type was
\* rejected and reset
C18_Witness ==
    /\ last.op = "recv" /\ last.res = "overflow"
    /\ usize_max = UsizeNarrowMax
    /\ last.env.cookie_len = U64Max
    /\ buf.proxy_msg.cookie_len = 0

C20_CookieLenAccessorSafe ==
    (pc = "idle" /\ last.op = "recv") => FitsUsize(buf.proxy_msg.cookie_len)
====
